---- MODULE Spec2Model ----
(***************************************************************************)
(* Model of ytd.py: timestamp extraction from a video description          *)
(* (time_to_ms, extract_timestamps), the splitting of the audio by the     *)
(* extracted markers (split_audio_by_timestamps) and the pipeline of main. *)
(*                                                                         *)
(* Text is a sequence of one-character strings.  The two regular           *)
(* expressions of extract_timestamps are kept as syntax trees and matched  *)
(* by a backtracking matcher that returns the matches in the priority      *)
(* order of Python's re module; re.findall takes the first one.            *)
(***************************************************************************)
EXTENDS Integers, Sequences, FiniteSets, TLC

(***************************************************************************)
(* Characters and strings                                                  *)
(***************************************************************************)
NL == "\n"
DigitChars == <<"0", "1", "2", "3", "4", "5", "6", "7", "8", "9">>
Digits == {DigitChars[i] : i \in 1..10}
Blank == {" ", "\t"}
Whitespace == {" ", "\t", "\n", "\r"}
SepChars == {"-", ":"}
InvalidFilenameChars == {"\\", "/", "*", "?", ":", "\"", "<", ">", "|"}

Range(s) == {s[i] : i \in 1..Len(s)}

DigitVal(c) == (CHOOSE i \in 1..10 : DigitChars[i] = c) - 1

RECURSIVE LStrip(_)
LStrip(s) == IF s # <<>> /\ Head(s) \in Whitespace THEN LStrip(Tail(s)) ELSE s

RECURSIVE RStrip(_)
RStrip(s) ==
    IF s # <<>> /\ s[Len(s)] \in Whitespace
    THEN RStrip(SubSeq(s, 1, Len(s) - 1))
    ELSE s

\* str.strip()
Strip(s) == RStrip(LStrip(s))

\* str.split(sep) for a one-character separator
RECURSIVE StrSplit(_, _)
StrSplit(s, sep) ==
    IF \E i \in 1..Len(s) : s[i] = sep
    THEN LET i == CHOOSE j \in 1..Len(s) :
                      s[j] = sep /\ \A k \in 1..(j - 1) : s[k] # sep
         IN  <<SubSeq(s, 1, i - 1)>> \o StrSplit(SubSeq(s, i + 1, Len(s)), sep)
    ELSE <<s>>

\* the value of a string of decimal digits, most significant first
RECURSIVE DigitsValue(_)
DigitsValue(s) ==
    IF s = <<>> THEN 0
    ELSE 10 * DigitsValue(SubSeq(s, 1, Len(s) - 1)) + DigitVal(s[Len(s)])

NoExc == "none"
ValueError == "ValueError"

\* int(str): surrounding whitespace is ignored, anything that is not a
\* non-empty run of digits raises ValueError
PyInt(s) ==
    LET t == Strip(s)
    IN  IF t # <<>> /\ \A i \in 1..Len(t) : t[i] \in Digits
        THEN [exc |-> NoExc, val |-> DigitsValue(t)]
        ELSE [exc |-> ValueError, val |-> 0]

(***************************************************************************)
(* time_to_ms                                                              *)
(***************************************************************************)
\* time_to_ms with the two-component case read as hours and minutes
time_to_ms_hours_minutes(time_str) ==
    LET parts == StrSplit(Strip(time_str), ":")
        p(i)  == PyInt(parts[i])
    IN  IF Len(parts) \in {2, 3}
           /\ \A i \in 1..Len(parts) : p(i).exc = NoExc
        THEN [exc |-> NoExc,
              val |-> p(1).val * 3600 * 1000 + p(2).val * 60 * 1000
                      + (IF Len(parts) = 3 THEN p(3).val * 1000 ELSE 0)]
        ELSE [exc |-> ValueError, val |-> 0]

time_to_ms(time_str) ==
    LET parts == StrSplit(Strip(time_str), ":")
        p(i)  == PyInt(parts[i])
    IN  IF Len(parts) = 2
        THEN IF p(1).exc = NoExc /\ p(2).exc = NoExc
             THEN [exc |-> NoExc, val |-> p(1).val * 60 * 1000 + p(2).val * 1000]
             ELSE [exc |-> ValueError, val |-> 0]
        ELSE IF Len(parts) = 3
        THEN IF p(1).exc = NoExc /\ p(2).exc = NoExc /\ p(3).exc = NoExc
             THEN [exc |-> NoExc,
                   val |-> p(1).val * 3600 * 1000 + p(2).val * 60 * 1000
                           + p(3).val * 1000]
             ELSE [exc |-> ValueError, val |-> 0]
        ELSE [exc |-> ValueError, val |-> 0]

(***************************************************************************)
(* sanitize_filename                                                       *)
(***************************************************************************)
sanitize_filename(filename) ==
    [i \in 1..Len(filename) |->
        IF filename[i] \in InvalidFilenameChars THEN "_" ELSE filename[i]]

(***************************************************************************)
(* Regular expressions: syntax trees                                       *)
(***************************************************************************)
Unbounded == -1

Cls(S)    == [t |-> "cls", neg |-> FALSE, set |-> S]
Dot       == [t |-> "cls", neg |-> TRUE, set |-> {NL}]
Cat(xs)   == [t |-> "cat", items |-> xs]
Alt(xs)   == [t |-> "alt", items |-> xs]
Rep(x, lo, hi, greedy) ==
    [t |-> "rep", body |-> x, min |-> lo, max |-> hi, greedy |-> greedy]
Opt(x)    == Rep(x, 0, 1, TRUE)
Grp(n, x) == [t |-> "grp", n |-> n, body |-> x]
Bol       == [t |-> "bol"]
Eol       == [t |-> "eol"]
Look(x)   == [t |-> "look", body |-> x]

\* \d{1,2}:(?:\d{1,2}:)?\d{1,2}
TimestampToken ==
    Cat(<<Rep(Cls(Digits), 1, 2, TRUE), Cls({":"}),
          Opt(Cat(<<Rep(Cls(Digits), 1, 2, TRUE), Cls({":"})>>)),
          Rep(Cls(Digits), 1, 2, TRUE)>>)

\* [ \t]*[-:][ \t]*
Separator ==
    Cat(<<Rep(Cls(Blank), 0, Unbounded, TRUE), Cls(SepChars),
          Rep(Cls(Blank), 0, Unbounded, TRUE)>>)

\* (?:^|\n)
LineStart == Alt(<<Bol, Cls({NL})>>)

\* (?=\n|$)
LineEnd == Look(Alt(<<Cls({NL}), Eol>>))

\* (?:^|\n)(?:\()?(\d{1,2}:(?:\d{1,2}:)?\d{1,2})(?:\))?(?:[ \t]*[-:][ \t]*)?(.+?)(?=\n|$)
pattern1 ==
    Cat(<<LineStart, Opt(Cls({"("})), Grp(1, TimestampToken), Opt(Cls({")"})),
          Opt(Separator), Grp(2, Rep(Dot, 1, Unbounded, FALSE)), LineEnd>>)

\* pattern2 with a greedy label, (.+) for (.+?)
pattern2_greedy_label ==
    Cat(<<LineStart, Grp(1, Rep(Dot, 1, Unbounded, TRUE)), Separator,
          Grp(2, TimestampToken), LineEnd>>)

\* (?:^|\n)(.+?)(?:[ \t]*[-:][ \t]*)(\d{1,2}:(?:\d{1,2}:)?\d{1,2})(?=\n|$)
pattern2 ==
    Cat(<<LineStart, Grp(1, Rep(Dot, 1, Unbounded, FALSE)), Separator,
          Grp(2, TimestampToken), LineEnd>>)

(***************************************************************************)
(* Regular expressions: backtracking matcher.  A matcher state is the      *)
(* position reached and the spans of the two capture groups; Match returns *)
(* the states a node can end in, most preferred first.                     *)
(***************************************************************************)
NoSpan == <<0, 0>>
StartAt(p) == [pos |-> p, caps |-> <<NoSpan, NoSpan>>]

RECURSIVE Match(_, _, _)
RECURSIVE MatchEach(_, _, _, _)
RECURSIVE MatchCat(_, _, _, _)
RECURSIVE MatchAlt(_, _, _, _)
RECURSIVE MatchRep(_, _, _, _)
RECURSIVE MatchRepEach(_, _, _, _, _)
RECURSIVE CloseGroup(_, _, _, _)

\* node applied to every state of sts, results concatenated in order
MatchEach(node, s, sts, i) ==
    IF i > Len(sts) THEN <<>>
    ELSE Match(node, s, sts[i]) \o MatchEach(node, s, sts, i + 1)

MatchCat(items, i, s, sts) ==
    IF i > Len(items) THEN sts
    ELSE MatchCat(items, i + 1, s, MatchEach(items[i], s, sts, 1))

MatchAlt(items, i, s, st) ==
    IF i > Len(items) THEN <<>>
    ELSE Match(items[i], s, st) \o MatchAlt(items, i + 1, s, st)

MatchRepEach(node, s, sts, i, k) ==
    IF i > Len(sts) THEN <<>>
    ELSE MatchRep(node, s, sts[i], k) \o MatchRepEach(node, s, sts, i + 1, k)

\* k repetitions done; a greedy loop prefers one more, a lazy one prefers to stop
MatchRep(node, s, st, k) ==
    LET more == IF node.max = Unbounded \/ k < node.max
                THEN MatchRepEach(node, s, Match(node.body, s, st), 1, k + 1)
                ELSE <<>>
        stop == IF k >= node.min THEN <<st>> ELSE <<>>
    IN  IF node.greedy THEN more \o stop ELSE stop \o more

CloseGroup(n, from, sts, i) ==
    IF i > Len(sts) THEN <<>>
    ELSE <<[sts[i] EXCEPT !.caps[n] = <<from, sts[i].pos>>]>>
         \o CloseGroup(n, from, sts, i + 1)

Match(node, s, st) ==
    CASE node.t = "cls" ->
            IF st.pos <= Len(s) /\ ((s[st.pos] \in node.set) # node.neg)
            THEN <<[st EXCEPT !.pos = @ + 1]>>
            ELSE <<>>
      [] node.t = "cat" -> MatchCat(node.items, 1, s, <<st>>)
      [] node.t = "alt" -> MatchAlt(node.items, 1, s, st)
      [] node.t = "rep" -> MatchRep(node, s, st, 0)
      [] node.t = "grp" ->
            CloseGroup(node.n, st.pos, Match(node.body, s, st), 1)
      [] node.t = "bol" ->
            IF st.pos = 1 \/ s[st.pos - 1] = NL THEN <<st>> ELSE <<>>
      [] node.t = "eol" ->
            IF st.pos = Len(s) + 1 \/ s[st.pos] = NL THEN <<st>> ELSE <<>>
      [] node.t = "look" ->
            IF Match(node.body, s, st) # <<>> THEN <<st>> ELSE <<>>

\* the text of capture group n of a match ('' when the group took no part)
Group(s, m, n) == SubSeq(s, m.caps[n][1], m.caps[n][2] - 1)

\* re.findall(pattern, s, re.MULTILINE) for a pattern with two groups: the
\* leftmost match from each position, scanning on from the end of the match
RECURSIVE FindAllFrom(_, _, _)
FindAllFrom(pattern, s, p) ==
    IF p > Len(s) + 1 THEN <<>>
    ELSE LET ms == Match(pattern, s, StartAt(p))
         IN  IF ms = <<>> THEN FindAllFrom(pattern, s, p + 1)
             ELSE LET m == Head(ms)
                  IN  <<<<Group(s, m, 1), Group(s, m, 2)>>>>
                      \o FindAllFrom(pattern, s,
                                     IF m.pos > p THEN m.pos ELSE p + 1)

findall(pattern, s) == FindAllFrom(pattern, s, 1)

(***************************************************************************)
(* extract_timestamps                                                      *)
(***************************************************************************)
Marker(ms, name) == [time_ms |-> ms, track_name |-> name]

\* the loop over matches1: (time_str, track_name) pairs; a ValueError of
\* time_to_ms skips the pair
RECURSIVE ProcessStandard(_)
ProcessStandard(matches) ==
    IF matches = <<>> THEN <<>>
    ELSE LET t == time_to_ms(Head(matches)[1])
         IN  (IF t.exc = NoExc
              THEN <<Marker(t.val, Strip(Head(matches)[2]))>>
              ELSE <<>>) \o ProcessStandard(Tail(matches))

\* the loop over matches2: (track_name, time_str) pairs
RECURSIVE ProcessReverse(_)
ProcessReverse(matches) ==
    IF matches = <<>> THEN <<>>
    ELSE LET t == time_to_ms(Head(matches)[2])
         IN  (IF t.exc = NoExc
              THEN <<Marker(t.val, Strip(Head(matches)[1]))>>
              ELSE <<>>) \o ProcessReverse(Tail(matches))

\* the two loops in the other order
MergeCandidates_reverse_first(m1, m2) ==
    ProcessReverse(m2) \o ProcessStandard(m1)

MergeCandidates(m1, m2) == ProcessStandard(m1) \o ProcessReverse(m2)

\* sorted(result, key=lambda x: x[0]): stable, equal keys keep their order
RECURSIVE InsertSorted(_, _)
InsertSorted(x, sorted) ==
    IF sorted = <<>> THEN <<x>>
    ELSE IF Head(sorted).time_ms <= x.time_ms
    THEN <<Head(sorted)>> \o InsertSorted(x, Tail(sorted))
    ELSE <<x>> \o sorted

RECURSIVE SortedByTime(_)
SortedByTime(xs) ==
    IF xs = <<>> THEN <<>>
    ELSE InsertSorted(xs[Len(xs)], SortedByTime(SubSeq(xs, 1, Len(xs) - 1)))

\* the loop without the test on seen_times
DedupLoop_keeps_duplicates(xs, seen_times) == xs

\* the loop that keeps the first marker of every offset
RECURSIVE DedupLoop(_, _)
DedupLoop(xs, seen_times) ==
    IF xs = <<>> THEN <<>>
    ELSE IF Head(xs).time_ms \notin seen_times
    THEN <<Head(xs)>> \o DedupLoop(Tail(xs), seen_times \cup {Head(xs).time_ms})
    ELSE DedupLoop(Tail(xs), seen_times)

RemoveDuplicates(res) == DedupLoop(SortedByTime(res), {})

extract_timestamps(d) ==
    RemoveDuplicates(MergeCandidates(findall(pattern1, d), findall(pattern2, d)))

(***************************************************************************)
(* split_audio_by_timestamps.  audio is the outcome of                     *)
(* AudioSegment.from_file: loaded or not, and len(audio) in milliseconds.  *)
(* The call returns created_files; exported lists what segment.export was  *)
(* given, and timestamps is the caller's list object as the call leaves it.*)
(* mkdir and segment.export are taken to succeed.                          *)
(***************************************************************************)
EndName == <<"E", "n", "d">>

\* f"{n:02d}"
RECURSIVE Decimal(_)
Decimal(n) ==
    IF n < 10 THEN <<DigitChars[n + 1]>>
    ELSE Decimal(n \div 10) \o <<DigitChars[(n % 10) + 1]>>

TwoDigits(n) == IF n < 10 THEN <<"0">> \o Decimal(n) ELSE Decimal(n)

\* f"{track_number} - {safe_track_name}.mp3"
OutputFile(i, track_name) ==
    TwoDigits(i + 1) \o <<" ", "-", " ">> \o sanitize_filename(track_name)
    \o <<".", "m", "p", "3">>

\* the loop body with end_time read at index i for i+1
SplitSegment_end_at_start(ts, i) ==
    [output_file |-> OutputFile(i, ts[i + 1].track_name),
     start_time  |-> ts[i + 1].time_ms,
     end_time    |-> ts[i + 1].time_ms,
     track_name  |-> ts[i + 1].track_name]

\* one pass of the loop body, for i in range(len(timestamps) - 1), 0-based i
SplitSegment(ts, i) ==
    [output_file |-> OutputFile(i, ts[i + 1].track_name),
     start_time  |-> ts[i + 1].time_ms,
     end_time    |-> ts[i + 2].time_ms,
     track_name  |-> ts[i + 1].track_name]

split_audio_by_timestamps(timestamps_arg, audio_arg) ==
    IF timestamps_arg = <<>> \/ ~audio_arg.loaded
    THEN [created_files |-> <<>>, exported |-> <<>>,
          timestamps |-> timestamps_arg]
    ELSE LET ts  == Append(timestamps_arg, Marker(audio_arg.len, EndName))
             seg == [i \in 1..(Len(ts) - 1) |-> SplitSegment(ts, i - 1)]
         IN  [created_files |-> [i \in 1..Len(seg) |-> seg[i].output_file],
              exported      |-> seg,
              timestamps    |-> ts]

(***************************************************************************)
(* Inputs.  A description is written down line by line; a line is a        *)
(* timestamp token (its components as numbers with a width of one or two   *)
(* digits), a label and a separator in forward or reverse layout, or plain *)
(* text.                                                                   *)
(***************************************************************************)
MaxLines == 2
MaxParts == 4
MaxTracks == 2
MaxCalls == 2
MaxArgs == 3
MaxRawLen == 5

One(n) == [n |-> n, w |-> 1]
Two(n) == [n |-> n, w |-> 2]

FormatComp(c) ==
    IF c.w = 2
    THEN <<DigitChars[(c.n \div 10) + 1], DigitChars[(c.n % 10) + 1]>>
    ELSE <<DigitChars[c.n + 1]>>

RECURSIVE FormatToken(_)
FormatToken(tok) ==
    IF Len(tok) = 1 THEN FormatComp(tok[1])
    ELSE FormatComp(tok[1]) \o <<":">> \o FormatToken(Tail(tok))

Fwd(open, tok, close, sep, label) ==
    [layout |-> "fwd", open |-> open, tok |-> tok, close |-> close,
     sep |-> sep, label |-> label]
Rev(label, sep, tok) ==
    [layout |-> "rev", open |-> FALSE, tok |-> tok, close |-> FALSE,
     sep |-> sep, label |-> label]
Raw(label) ==
    [layout |-> "raw", open |-> FALSE, tok |-> <<>>, close |-> FALSE,
     sep |-> <<>>, label |-> label]

RenderLine(l) ==
    CASE l.layout = "fwd" ->
            (IF l.open THEN <<"(">> ELSE <<>>) \o FormatToken(l.tok)
            \o (IF l.close THEN <<")">> ELSE <<>>) \o l.sep \o l.label
      [] l.layout = "rev" -> l.label \o l.sep \o FormatToken(l.tok)
      [] l.layout = "raw" -> l.label

\* "\n".join of the rendered lines
RECURSIVE Render(_)
Render(ls) ==
    IF ls = <<>> THEN <<>>
    ELSE IF Len(ls) = 1 THEN RenderLine(ls[1])
    ELSE RenderLine(ls[1]) \o <<NL>> \o Render(Tail(ls))

T_0_00 == <<One(0), Two(0)>>
T_1_00 == <<One(1), Two(0)>>
T_0_60 == <<One(0), Two(60)>>
T_1_37 == <<One(1), Two(37)>>
T_2_03 == <<One(2), Two(3)>>
T_0_01_00 == <<One(0), Two(1), Two(0)>>
T_1_2_03 == <<One(1), One(2), Two(3)>>
T_12_34_56_78 == <<Two(12), Two(34), Two(56), Two(78)>>

LineTokens == {T_1_00, T_0_60, T_1_37, T_0_01_00, T_1_2_03, T_12_34_56_78}

SP == <<" ">>
DASH == <<" ", "-", " ">>
COLON == <<":">>

FwdSeps == {<<>>, SP, DASH, COLON, <<"-">>}
RevSeps == {DASH, COLON, <<"-">>, <<":", " ">>}
FwdLabels == {<<>>, SP, <<" ", "\t">>, <<"a">>, <<" ", "a", " ", "b", " ">>,
              <<"x", ":", "1">>}
RevLabels == {SP, <<"a">>, <<" ", "a", " ", "b", " ">>, <<"a", ":", "1">>,
              <<"a", "-", " ", "1", "2">>, <<"a", " ", "1">>, <<"1">>,
              <<"1", ":", "0", "0", " ", "x">>, <<"(", "2", ":", "5", "y">>}

SingleLines ==
    {Fwd(o, t, c, s, l) : o \in BOOLEAN, t \in LineTokens, c \in BOOLEAN,
                          s \in FwdSeps, l \in FwdLabels}
    \cup {Rev(l, s, t) : l \in RevLabels, s \in RevSeps, t \in LineTokens}
    \cup {Raw(l) : l \in FwdLabels}

MultiLines ==
    {Fwd(FALSE, T_12_34_56_78, FALSE, SP, <<"B", "a", "d">>),
     Fwd(FALSE, T_1_00, FALSE, SP, <<"G", "o", "o", "d">>),
     Fwd(FALSE, T_1_00, FALSE, SP, <<"A">>),
     Fwd(FALSE, T_0_00, FALSE, SP, <<"I", "n", "t", "r", "o">>),
     Fwd(FALSE, T_1_37, FALSE, <<>>, <<>>),
     Fwd(TRUE, T_0_01_00, TRUE, DASH, <<"D">>),
     Rev(<<"A">>, DASH, T_1_00),
     Rev(<<"I", "n", "t", "r", "o">>, DASH, T_0_00),
     Rev(<<"V", "e", "r", "s", "e">>, DASH, T_1_37),
     Rev(<<"B">>, COLON, T_0_60),
     Rev(<<"C", " ">>, <<":", " ">>, T_1_2_03),
     Rev(<<"1", ":", "0", "0", " ", "x">>, DASH, T_2_03),
     Rev(<<"a", ":", "1">>, COLON, T_2_03),
     Raw(<<"n", "o", "t", "e", "s">>)}

RECURSIVE SeqsOfLen(_, _)
SeqsOfLen(S, n) ==
    IF n = 0 THEN {<<>>}
    ELSE {Append(q, x) : q \in SeqsOfLen(S, n - 1), x \in S}

SeqsUpTo(S, n) == UNION {SeqsOfLen(S, k) : k \in 0..n}

\* every text of up to MaxRawLen of these characters, taken as it is
RawChars == {"1", ":", "-", " ", "a"}
RawTexts == SeqsUpTo(RawChars, MaxRawLen)

LineSeqs ==
    {<<l>> : l \in SingleLines} \cup SeqsUpTo(MultiLines, MaxLines)
    \cup {<<Raw(t)>> : t \in RawTexts}

CompSet == {One(0), One(1), One(7), Two(0), Two(5), Two(59), Two(75), Two(99)}
TimeInputs == SeqsUpTo(CompSet, MaxParts) \ {<<>>}

TrackOffsets == {0, 60000, 97000}
TrackNames == {<<"A">>, <<"B", ":">>}
TrackLists ==
    SeqsUpTo({Marker(o, n) : o \in TrackOffsets, n \in TrackNames}, MaxTracks)

Loaded(n) == [loaded |-> TRUE, len |-> n]
LoadError == [loaded |-> FALSE, len |-> 0]
AudioSet == {Loaded(n) : n \in {0, 60000, 97000, 120000}} \cup {LoadError}

ArgTokens == {"URL", "DIR", "--no-split", "--bitrate", "--other"}
ArgLists == SeqsUpTo(ArgTokens, MaxArgs)

MainLineSeqs ==
    {<<>>,
     <<Raw(<<"n", "o", "t", "e", "s">>)>>,
     <<Fwd(FALSE, T_1_00, FALSE, SP, <<"A">>)>>,
     <<Fwd(FALSE, T_0_00, FALSE, SP, <<"I", "n", "t", "r", "o">>),
       Fwd(FALSE, T_1_37, FALSE, SP, <<"B", ":">>)>>,
     <<Rev(<<"V", "e", "r", "s", "e">>, DASH, T_1_37),
       Rev(<<"I", "n", "t", "r", "o">>, DASH, T_0_00)>>}

(***************************************************************************)
(* State                                                                   *)
(***************************************************************************)
VARIABLES
    pc,             \* position of main, or of the caller of a single function
    lines,          \* how the description was written down
    argv,           \* sys.argv[1:]
    url, output_dir, split_tracks, bitrate,     \* main: parsed arguments
    audio_file, description,                    \* main: the download's result
    timestamps,     \* the caller's track list (main: extract's result)
    exit_status,    \* the status given to sys.exit
    calls,          \* the functions main has called, in order
    matches1, matches2, result, unique_results, \* locals of extract_timestamps
    comps, time_str, time_ms,                   \* time_to_ms: input, result
    audio,          \* what AudioSegment.from_file gave
    passed,         \* the lists passed to split_audio_by_timestamps, per call
    returns         \* what each call of split_audio_by_timestamps gave

vars == <<pc, lines, argv, url, output_dir, split_tracks, bitrate, audio_file,
          description, timestamps, exit_status, calls, matches1, matches2,
          result, unique_results, comps, time_str, time_ms, audio, passed,
          returns>>

None == "None"
NotExited == -1
NoResult == [exc |-> NoExc, val |-> 0]

mainVars == <<argv, url, output_dir, split_tracks, bitrate, audio_file,
              exit_status, calls>>
extractVars == <<matches1, matches2, result, unique_results>>
timeVars == <<comps, time_str, time_ms>>
splitVars == <<audio, passed, returns>>

(***************************************************************************)
(* main                                                                    *)
(***************************************************************************)
StartsWithDashes(arg) == arg \in {"--no-split", "--bitrate", "--other"}

\* the while loop over sys.argv; args is sys.argv[1:], i is 1-based
RECURSIVE ParseArgs(_, _, _)
ParseArgs(args, i, st) ==
    IF i > Len(args) THEN st
    ELSE IF args[i] = "--no-split"
    THEN ParseArgs(args, i + 1, [st EXCEPT !.split_tracks = FALSE])
    ELSE IF args[i] = "--bitrate" /\ i + 1 <= Len(args)
    THEN ParseArgs(args, i + 2, [st EXCEPT !.bitrate = args[i + 1]])
    ELSE IF ~StartsWithDashes(args[i])
    THEN IF st.url = None
         THEN ParseArgs(args, i + 1, [st EXCEPT !.url = args[i]])
         ELSE IF st.output_dir = None
         THEN ParseArgs(args, i + 1, [st EXCEPT !.output_dir = args[i]])
         ELSE ParseArgs(args, i + 1, st)
    ELSE ParseArgs(args, i + 1, st)

ArgDefaults ==
    [url |-> None, output_dir |-> None, split_tracks |-> TRUE,
     bitrate |-> "320k"]

Init ==
    /\ pc = "main"
    /\ argv \in ArgLists
    /\ lines = <<>> /\ url = None /\ output_dir = None
    /\ split_tracks = TRUE /\ bitrate = "320k" /\ audio_file = None
    /\ description = <<>> /\ timestamps = <<>> /\ exit_status = NotExited
    /\ calls = <<>> /\ matches1 = <<>> /\ matches2 = <<>> /\ result = <<>>
    /\ unique_results = <<>> /\ comps = <<>> /\ time_str = <<>>
    /\ time_ms = NoResult /\ audio = LoadError /\ passed = <<>>
    /\ returns = <<>>

Exit(status) ==
    /\ pc' = "exit"
    /\ exit_status' = status

\* main up to the call of download_audio_with_info: usage check, the argument
\* loop, the check for a URL
MainParseArgs ==
    /\ pc = "main"
    /\ LET st == ParseArgs(argv, 1, ArgDefaults)
       IN  /\ url' = st.url
           /\ output_dir' = st.output_dir
           /\ split_tracks' = st.split_tracks
           /\ bitrate' = st.bitrate
           /\ IF argv = <<>> \/ st.url = None
              THEN Exit(1)
              ELSE pc' = "download" /\ exit_status' = exit_status
    /\ UNCHANGED <<lines, argv, audio_file, description, timestamps, calls>>
    /\ UNCHANGED <<extractVars, timeVars, splitVars>>

\* what download_audio_with_info can return: (None, None, None) when yt-dlp
\* or the JSON decoding failed, else the audio file and the description
\* ('' stands for a missing, null or empty description)
DownloadFailed == [audio_file |-> None, lines |-> <<>>]
DownloadResults ==
    {DownloadFailed} \cup {[audio_file |-> "audio.mp3", lines |-> ls] :
                              ls \in MainLineSeqs}

\* the tests without the one on split_tracks
AfterDownload_ignores_no_split(file, split, d) ==
    IF file = None THEN "exit1"
    ELSE IF d # <<>> THEN "extract"
    ELSE "exit0"

\* "if not audio_file: sys.exit(1)", then "if split_tracks and description",
\* else the sys.exit(0) at the end
AfterDownload(file, split, d) ==
    IF file = None THEN "exit1"
    ELSE IF split /\ d # <<>> THEN "extract"
    ELSE "exit0"

\* the call of download_audio_with_info, the exit when it failed, and the
\* test "if split_tracks and description"
MainDownload ==
    /\ pc = "download"
    /\ \E r \in DownloadResults :
        /\ audio_file' = r.audio_file
        /\ lines' = r.lines
        /\ description' = Render(r.lines)
        /\ calls' = Append(calls, "download_audio_with_info")
        /\ LET to == AfterDownload(r.audio_file, split_tracks,
                                   Render(r.lines))
           IN  IF to = "exit1" THEN Exit(1)
               ELSE IF to = "exit0" THEN Exit(0)
               ELSE pc' = to /\ exit_status' = exit_status
    /\ UNCHANGED <<argv, url, output_dir, split_tracks, bitrate, timestamps>>
    /\ UNCHANGED <<extractVars, timeVars, splitVars>>

\* the call of extract_timestamps and the test "if timestamps"
MainExtract ==
    /\ pc = "extract"
    /\ timestamps' = extract_timestamps(description)
    /\ calls' = Append(calls, "extract_timestamps")
    /\ IF timestamps' # <<>>
       THEN pc' = "split" /\ exit_status' = exit_status
       ELSE Exit(0)
    /\ UNCHANGED <<lines, argv, url, output_dir, split_tracks, bitrate,
                   audio_file, description>>
    /\ UNCHANGED <<extractVars, timeVars, splitVars>>

\* the call of split_audio_by_timestamps on main's list, and sys.exit(0)
MainSplit ==
    /\ pc = "split"
    /\ \E a \in AudioSet :
        LET r == split_audio_by_timestamps(timestamps, a)
        IN  /\ audio' = a
            /\ passed' = Append(passed, timestamps)
            /\ returns' = Append(returns, [created_files |-> r.created_files,
                                           exported |-> r.exported])
            /\ timestamps' = r.timestamps
    /\ calls' = Append(calls, "split_audio_by_timestamps")
    /\ Exit(0)
    /\ UNCHANGED <<lines, argv, url, output_dir, split_tracks, bitrate,
                   audio_file, description>>
    /\ UNCHANGED <<extractVars, timeVars>>

Next == MainParseArgs \/ MainDownload \/ MainExtract \/ MainSplit

Spec == Init /\ [][Next]_vars

(***************************************************************************)
(* extract_timestamps called on its own, on every description              *)
(***************************************************************************)
InitExtract ==
    /\ pc = "extract_call"
    /\ lines \in LineSeqs
    /\ description = Render(lines)
    /\ argv = <<>> /\ url = None /\ output_dir = None
    /\ split_tracks = TRUE /\ bitrate = "320k" /\ audio_file = None
    /\ timestamps = <<>> /\ exit_status = NotExited
    /\ calls = <<>> /\ matches1 = <<>> /\ matches2 = <<>> /\ result = <<>>
    /\ unique_results = <<>> /\ comps = <<>> /\ time_str = <<>>
    /\ time_ms = NoResult /\ audio = LoadError /\ passed = <<>>
    /\ returns = <<>>

ExtractCall ==
    /\ pc = "extract_call"
    /\ pc' = "extract_done"
    /\ matches1' = findall(pattern1, description)
    /\ matches2' = findall(pattern2, description)
    /\ result' = MergeCandidates(matches1', matches2')
    /\ unique_results' = RemoveDuplicates(result')
    /\ timestamps' = unique_results'
    /\ UNCHANGED <<lines, description, mainVars, timeVars, splitVars>>

NextExtract == ExtractCall

SpecExtract == InitExtract /\ [][NextExtract]_vars

(***************************************************************************)
(* time_to_ms called on its own, on tokens of one to MaxParts components   *)
(***************************************************************************)
InitTime ==
    /\ pc = "time_call"
    /\ comps \in TimeInputs
    /\ time_str = FormatToken(comps)
    /\ lines = <<>> /\ argv = <<>> /\ url = None /\ output_dir = None
    /\ split_tracks = TRUE /\ bitrate = "320k" /\ audio_file = None
    /\ description = <<>> /\ timestamps = <<>> /\ exit_status = NotExited
    /\ calls = <<>> /\ matches1 = <<>> /\ matches2 = <<>> /\ result = <<>>
    /\ unique_results = <<>>
    /\ time_ms = NoResult /\ audio = LoadError /\ passed = <<>>
    /\ returns = <<>>

TimeCall ==
    /\ pc = "time_call"
    /\ pc' = "time_done"
    /\ time_ms' = time_to_ms(time_str)
    /\ UNCHANGED <<lines, description, timestamps, comps, time_str>>
    /\ UNCHANGED <<mainVars, extractVars, splitVars>>

NextTime == TimeCall

SpecTime == InitTime /\ [][NextTime]_vars

(***************************************************************************)
(* split_audio_by_timestamps called, up to MaxCalls times, by a caller     *)
(* that keeps one list object and one audio file                           *)
(***************************************************************************)
InitSplit ==
    /\ pc = "split_call"
    /\ timestamps \in TrackLists
    /\ audio \in AudioSet
    /\ lines = <<>> /\ argv = <<>> /\ url = None /\ output_dir = None
    /\ split_tracks = TRUE /\ bitrate = "320k" /\ audio_file = "audio.mp3"
    /\ description = <<>> /\ exit_status = NotExited
    /\ calls = <<>> /\ matches1 = <<>> /\ matches2 = <<>> /\ result = <<>>
    /\ unique_results = <<>> /\ comps = <<>> /\ time_str = <<>>
    /\ time_ms = NoResult /\ passed = <<>>
    /\ returns = <<>>

SplitCall ==
    /\ pc = "split_call"
    /\ Len(returns) < MaxCalls
    /\ LET r == split_audio_by_timestamps(timestamps, audio)
       IN  /\ passed' = Append(passed, timestamps)
           /\ returns' = Append(returns, [created_files |-> r.created_files,
                                          exported |-> r.exported])
           /\ timestamps' = r.timestamps
    /\ UNCHANGED <<pc, lines, description, audio, mainVars, extractVars,
                   timeVars>>

NextSplit == SplitCall

SpecSplit == InitSplit /\ [][NextSplit]_vars

(***************************************************************************)
(* Properties                                                              *)
(***************************************************************************)
StrictlyIncreasing(ms) ==
    \A i \in 1..(Len(ms) - 1) : ms[i].time_ms < ms[i + 1].time_ms

\* a token is a timestamp when it has two or three components
ValidToken(tok) == Len(tok) \in {2, 3}

\* the offset a timestamp stands for, from the numbers it was written with
TokenMs(tok) ==
    IF Len(tok) = 2
    THEN tok[1].n * 60000 + tok[2].n * 1000
    ELSE tok[1].n * 3600000 + tok[2].n * 60000 + tok[3].n * 1000

LineSet == {lines[i] : i \in 1..Len(lines)}
ValidLines == {i \in 1..Len(lines) : ValidToken(lines[i].tok)}
DistinctOffsets ==
    \A i, j \in ValidLines :
        i # j => TokenMs(lines[i].tok) # TokenMs(lines[j].tok)
LineMarker(l) == Marker(TokenMs(l.tok), Strip(l.label))

ExtractDone == pc = "extract_done"

\* C1: whatever the description, the markers extract_timestamps returns have
\* strictly increasing offsets, so no two of them share an offset.
C1_StrictlyIncreasingOffsets == StrictlyIncreasing(unique_results)

\* a description whose candidates were out of order and held a duplicate
\* offset, and of which two or more markers came back
C1_Witness ==
    /\ ExtractDone
    /\ Len(unique_results) >= 2
    /\ Len(result) > Len(unique_results)
    /\ \E i \in 1..(Len(result) - 1) : result[i].time_ms > result[i + 1].time_ms

CallsMade == 1..Len(returns)

FitsAudio(T) == T = <<>> \/ audio.len >= T[Len(T)].time_ms

\* C2: for a strictly increasing track list T and loaded audio at least as
\* long as T's last offset, a call emits len(T) segments in order, segment k
\* starting at T[k]'s offset with T[k]'s label and ending at T[k+1]'s offset,
\* the last one at the total duration, so that the segments tile
\* [T[1].offset, total duration); an empty T gives an empty result whatever
\* the audio.
C2_SegmentsTile ==
    \A c \in CallsMade :
        LET T == passed[c]
            seg == returns[c].exported
        IN  /\ (T = <<>>) =>
                  seg = <<>> /\ returns[c].created_files = <<>>
            /\ (audio.loaded /\ StrictlyIncreasing(T) /\ FitsAudio(T)) =>
                  /\ Len(seg) = Len(T)
                  /\ Len(returns[c].created_files) = Len(T)
                  /\ \A k \in 1..Len(T) :
                        /\ seg[k].start_time = T[k].time_ms
                        /\ seg[k].track_name = T[k].track_name
                        /\ seg[k].end_time =
                              IF k < Len(T) THEN T[k + 1].time_ms
                              ELSE audio.len
                        /\ returns[c].created_files[k] = seg[k].output_file
                  /\ \A k \in 1..(Len(T) - 1) :
                        seg[k].end_time = seg[k + 1].start_time

\* a call on two tracks with audio that runs past the second one
C2_Witness ==
    /\ returns # <<>>
    /\ Len(passed[1]) = 2
    /\ StrictlyIncreasing(passed[1])
    /\ audio.loaded
    /\ audio.len > passed[1][2].time_ms
    /\ Len(returns[1].exported) = 2

\* C3: split_audio_by_timestamps never emits a segment whose end is not
\* after its start (audio not longer than the last offset, or offsets that
\* do not increase): no such segment is exported and listed among the
\* created files.
C3_NoEmptyOrNegativeSegment ==
    \A c \in CallsMade :
        \A k \in 1..Len(returns[c].exported) :
            returns[c].exported[k].end_time > returns[c].exported[k].start_time

\* C4: a call leaves the caller's list as it was passed, so that a second
\* call with the same list and the same audio gives what the first gave.
C4_CallerListUnchanged ==
    /\ passed # <<>> => timestamps = passed[1]
    /\ \A c \in CallsMade : c > 1 => returns[c] = returns[1]

\* a line "<token> <label>" with a label that is not blank
PlainForward(l) ==
    /\ l.layout = "fwd" /\ ~l.open /\ ~l.close
    /\ l.sep = SP /\ Strip(l.label) # <<>>

\* C5: a line whose token has a number of components other than two or
\* three contributes no marker, and the markers of the other lines are
\* returned: of a description of "<token> <label>" lines, the result holds
\* the markers of the lines with a two- or three-component token and no
\* other marker.
C5_MalformedTokenSkipped ==
    (/\ ExtractDone
     /\ \A l \in LineSet : PlainForward(l)
     /\ DistinctOffsets)
    => /\ Len(unique_results) = Cardinality(ValidLines)
       /\ Range(unique_results) = {LineMarker(lines[i]) : i \in ValidLines}

\* C6: a line that is a timestamp and no label text (the token alone, or
\* the token and whitespace after it) gives the marker of the whole token
\* with the empty label.
C6_EmptyLabelKept ==
    (/\ ExtractDone
     /\ Len(lines) = 1
     /\ lines[1].layout = "fwd" /\ ~lines[1].open /\ ~lines[1].close
     /\ lines[1].sep = <<>>
     /\ Strip(lines[1].label) = <<>>
     /\ ValidToken(lines[1].tok))
    => unique_results = <<Marker(TokenMs(lines[1].tok), <<>>)>>

\* the candidates of the two layouts, as the loops over matches1 and
\* matches2 see them
ForwardOffset(m) == time_to_ms(m[1]).val
ForwardName(m) == Strip(m[2])
ReverseOffset(m) == time_to_ms(m[2]).val
ReverseName(m) == Strip(m[1])

FirstAt(o) ==
    CHOOSE j \in 1..Len(result) :
        /\ result[j].time_ms = o
        /\ \A k \in 1..(j - 1) : result[k].time_ms # o

\* C7: of the candidates of one offset exactly one marker is kept, the
\* first in merge order, which is all forward-layout candidates in text
\* order and then all reverse-layout candidates in text order; so a
\* forward-layout candidate wins over a reverse-layout one of its offset.
C7_FirstInMergeOrderKept ==
    ExtractDone =>
        /\ \A j \in 1..Len(result) :
              Cardinality({i \in 1..Len(unique_results) :
                  unique_results[i].time_ms = result[j].time_ms}) = 1
        /\ \A i \in 1..Len(unique_results) :
              unique_results[i] = result[FirstAt(unique_results[i].time_ms)]
        /\ Len(result) = Len(matches1) + Len(matches2)
        /\ \A k \in 1..Len(matches1) :
              result[k] = Marker(ForwardOffset(matches1[k]),
                                 ForwardName(matches1[k]))
        /\ \A k \in 1..Len(matches2) :
              result[Len(matches1) + k] =
                  Marker(ReverseOffset(matches2[k]), ReverseName(matches2[k]))
        /\ \A k \in 1..Len(matches1) :
              (\A h \in 1..(k - 1) :
                  ForwardOffset(matches1[h]) # ForwardOffset(matches1[k]))
              => \E i \in 1..Len(unique_results) :
                    unique_results[i] = Marker(ForwardOffset(matches1[k]),
                                               ForwardName(matches1[k]))

\* a reverse-layout line followed by a forward-layout line of the same
\* offset and another label: the forward label is the one kept
C7_Witness ==
    /\ ExtractDone
    /\ Len(lines) = 2
    /\ lines[1].layout = "rev" /\ lines[2].layout = "fwd"
    /\ Len(matches1) = 1 /\ Len(matches2) = 1
    /\ ForwardOffset(matches1[1]) = ReverseOffset(matches2[1])
    /\ ForwardName(matches1[1]) # ReverseName(matches2[1])
    /\ unique_results = <<Marker(ForwardOffset(matches1[1]),
                                 ForwardName(matches1[1]))>>

AllReverse ==
    /\ lines # <<>>
    /\ \A l \in LineSet : l.layout = "rev" /\ ValidToken(l.tok)
    /\ DistinctOffsets

OneMarkerPerLine ==
    /\ Len(unique_results) = Len(lines)
    /\ Range(unique_results) = {LineMarker(l) : l \in LineSet}
    /\ StrictlyIncreasing(unique_results)

\* C8 as it was stated: of a description whose lines are all in reverse
\* layout (label, separator, timestamp at the end of the line) with
\* pairwise distinct timestamps, one marker per line comes back, with the
\* line's trimmed label and the line's timestamp in milliseconds, ordered
\* by offset.
C8_ReverseLinesOriginal == (ExtractDone /\ AllReverse) => OneMarkerPerLine

IsBlankSeq(s) == \A i \in 1..Len(s) : s[i] \in Blank

\* the line starts as the forward layout does: an optional "(", one or two
\* digits, ":" and a digit
BeginsWithToken(s) ==
    LET r == IF s # <<>> /\ s[1] = "(" THEN Tail(s) ELSE s
    IN  \E d \in {1, 2} :
            /\ Len(r) >= d + 2
            /\ \A k \in 1..d : r[k] \in Digits
            /\ r[d + 1] = ":"
            /\ r[d + 2] \in Digits

\* the line reads as reverse layout with a shorter label too: the label
\* ends in a separator and one or two digits, and a bare ":" joins it to a
\* two-component timestamp
ShorterReading(l) ==
    /\ l.sep = COLON
    /\ Len(l.tok) = 2
    /\ \E d \in {1, 2} : \E b \in 0..Len(l.label) :
          /\ Len(l.label) >= d + b + 2
          /\ \A k \in (Len(l.label) - d + 1)..Len(l.label) :
                l.label[k] \in Digits
          /\ IsBlankSeq(SubSeq(l.label, Len(l.label) - d - b + 1,
                               Len(l.label) - d))
          /\ l.label[Len(l.label) - d - b] \in SepChars

Unambiguous(l) == ~BeginsWithToken(RenderLine(l)) /\ ~ShorterReading(l)

\* C8, amended: the same, for descriptions in which no line begins with a
\* timestamp token (after an optional "(") and no line has a second reading
\* as reverse layout with a shorter label.
C8_ReverseLinesUnambiguous ==
    (ExtractDone /\ AllReverse /\ \A l \in LineSet : Unambiguous(l))
    => OneMarkerPerLine

\* two reverse-layout lines, the later offset first, one with a
\* three-component timestamp and a label to trim
C8_Witness ==
    /\ ExtractDone
    /\ AllReverse
    /\ \A l \in LineSet : Unambiguous(l)
    /\ Len(lines) = 2
    /\ TokenMs(lines[1].tok) > TokenMs(lines[2].tok)
    /\ Len(lines[1].tok) = 3
    /\ Strip(lines[1].label) # lines[1].label
    /\ Len(unique_results) = 2

TimeDone == pc = "time_done"

\* C9: time_to_ms gives m*60000 + s*1000 for a token m:s and
\* h*3600000 + m*60000 + s*1000 for a token h:m:s, whatever the one- or
\* two-digit components (no range check: 1:75 is 135000), a non-negative
\* integer; a token of any other number of components raises ValueError.
C9_TimeToMs ==
    TimeDone =>
        /\ Len(comps) = 2 =>
              time_ms = [exc |-> NoExc,
                         val |-> comps[1].n * 60000 + comps[2].n * 1000]
        /\ Len(comps) = 3 =>
              time_ms = [exc |-> NoExc,
                         val |-> comps[1].n * 3600000 + comps[2].n * 60000
                                 + comps[3].n * 1000]
        /\ Len(comps) \notin {2, 3} => time_ms.exc = ValueError
        /\ time_ms.exc = NoExc => time_ms.val \in Nat

\* 1:75 gave 135000
C9_Witness ==
    /\ TimeDone
    /\ comps = <<One(1), Two(75)>>
    /\ time_ms = [exc |-> NoExc, val |-> 135000]

Called(f) == \E i \in 1..Len(calls) : calls[i] = f

====
